---- MODULE Spec2Model ----
(***************************************************************************)
(* spec-kit: the scaffolding installer (spec_kit/core/installer.py), its   *)
(* file helpers (spec_kit/utils/file_ops.py) and the verifier              *)
(* (spec_kit/core/validator.py), modelled over an explicit file tree.      *)
(*                                                                         *)
(* A tree is a function from paths to nodes.  A path is a sequence of      *)
(* names relative to the tree's root (the root itself is << >>); a node    *)
(* is a directory or a file with its text, a sequence of characters.       *)
(*                                                                         *)
(* Environment: in every tree the parent of an existing path is a          *)
(* directory, and the paths the installer treats as files (directories)    *)
(* are never occupied by a directory (file); only the target root itself   *)
(* may be missing or be a file.  FsWellFormed states the first half.       *)
(***************************************************************************)
EXTENDS Integers, Sequences, FiniteSets, TLC

VARIABLES
    spec_kit_root,      \* Installer.spec_kit_root: the source tree
    target,             \* the tree at Installer.target_path / Validator.target_path
    selected_plugins,   \* Installer.selected_plugins
    pc,                 \* where run_installation stands ("idle": no command in progress;
                        \* "verify_done": a verify command is at its return)
    k,                  \* install_plugins: index of the next plugin of the loop
    req,                \* the arguments of the current / last run_installation call, and the
                        \* answers given at its prompts
    outcome,            \* how the last run_installation call ended
    calls,              \* number of run_installation calls started
    before,             \* the target tree when the current / last call began
    broken,             \* the call interrupted in its write phase that has not been recovered yet
    edits,              \* number of edits the user has made to the target tree
    prev,               \* the last completed call: its arguments and the tree it left
    results,            \* Validator.results
    pass_count,         \* Validator.pass_count
    fail_count,         \* Validator.fail_count
    report,             \* the dict returned by the last run_all_checks
    exit_code,          \* the value returned by the last get_exit_code (-1: none yet)
    checks,             \* number of check and print calls made on the Validator instance
    lastRun,            \* the counters left by the previous run_all_checks and the tree it saw
    output,             \* what the last print_results / print_json call wrote
    gi_calls,           \* number of update_gitignore calls made directly
    gi_modified,        \* the value returned by the last update_gitignore
    messages,           \* ConversationManager.messages: the roles of the messages kept
    max_turns,          \* ConversationManager.max_turns
    removed,            \* whether the last add_*_message call removed messages
    adds,               \* number of add_*_message calls made
    todos,              \* the todos table: how many rows of each priority (none is completed)
    posts,              \* number of POST /todos requests made
    todos_response      \* the last response to GET /todos: its status and number of todos

vars == << spec_kit_root, target, selected_plugins, pc, k, req, outcome, calls,
           before, broken, edits, prev, results, pass_count, fail_count, report,
           exit_code, checks, lastRun, output, gi_calls, gi_modified,
           messages, max_turns, removed, adds, todos, posts, todos_response >>

installerVars == << selected_plugins, pc, k, req, outcome, calls, before, broken, prev >>
validatorVars == << results, pass_count, fail_count, report, exit_code, checks, lastRun, output >>
gitignoreVars == << gi_calls, gi_modified >>
exampleVars == << messages, max_turns, removed, adds, todos, posts, todos_response >>

-----------------------------------------------------------------------------
(* Bounds *)

\* run_installation calls per behaviour
MaxCalls == 2
\* edits a user makes to the target tree per behaviour
MaxEdits == 1
\* check calls on one Validator instance
MaxChecks == 3
\* direct update_gitignore calls per behaviour
MaxGitCalls == 3
\* chunks of text an initial .gitignore is made of
MaxChunks == 2
\* add_user_message / add_assistant_message calls per behaviour
MaxAdds == 6
\* the largest max_turns a ConversationManager is made with
MaxTurns == 3
\* POST /todos requests per behaviour
MaxPosts == 2

-----------------------------------------------------------------------------
(* Trees *)

Dir == [kind |-> "dir", content |-> << >>]
File(text) == [kind |-> "file", content |-> text]

Exists(fs, p) == p \in DOMAIN fs
IsDir(fs, p) == p \in DOMAIN fs /\ fs[p].kind = "dir"
IsFile(fs, p) == p \in DOMAIN fs /\ fs[p].kind = "file"

Parent(p) == SubSeq(p, 1, Len(p) - 1)
Prefixes(p) == { SubSeq(p, 1, n) : n \in 0..Len(p) }
IsUnder(p, d) == Len(p) > Len(d) /\ SubSeq(p, 1, Len(d)) = d
RelativeTo(p, d) == SubSeq(p, Len(d) + 1, Len(p))

\* the entries of directory d (Path.iterdir)
Entries(fs, d) == { p \in DOMAIN fs : Len(p) = Len(d) + 1 /\ IsUnder(p, d) }

\* the tree without p and everything below it
Remove(fs, p) == [q \in { q \in DOMAIN fs : q # p /\ ~IsUnder(q, p) } |-> fs[q]]

-----------------------------------------------------------------------------
(* spec_kit/utils/file_ops.py *)

\* path.mkdir(parents=True, exist_ok=True)
ensure_directory(fs, path) ==
    [q \in DOMAIN fs \cup Prefixes(path) |-> IF q \in DOMAIN fs THEN fs[q] ELSE Dir]

\* shutil.copy2 onto dest, after dest.parent.mkdir(parents=True, exist_ok=True)
WriteFile(fs, dest, text) ==
    LET made == ensure_directory(fs, Parent(dest))
    IN  [q \in DOMAIN made \cup {dest} |-> IF q = dest THEN File(text) ELSE made[q]]

\* safe_copy_file(src, dest, force): every caller has checked that src exists
safe_copy_file(sfs, src, fs, dest, force) ==
    IF Exists(fs, dest) /\ ~force
    THEN fs
    ELSE WriteFile(fs, dest, sfs[src].content)

\* the files src.rglob('*') yields
TreeFiles(sfs, src) == { p \in DOMAIN sfs : IsUnder(p, src) /\ IsFile(sfs, p) }

RECURSIVE CopyFiles(_, _, _, _, _, _)
CopyFiles(sfs, src, items, fs, dest, force) ==
    IF items = {}
    THEN fs
    ELSE LET item == CHOOSE p \in items : TRUE
             dest_file == dest \o RelativeTo(item, src)
         IN  CopyFiles(sfs, src, items \ {item},
                       safe_copy_file(sfs, item, fs, dest_file, force), dest, force)

\* safe_copy_tree(src, dest, force): every caller has checked that src is a directory
safe_copy_tree(sfs, src, fs, dest, force) ==
    CopyFiles(sfs, src, TreeFiles(sfs, src), ensure_directory(fs, dest), dest, force)

NL == "\n"
SENTINEL == <<".", "s", "p", "e", "c", "-", "k", "i", "t", "-", "t", "e", "m", "p", "l", "a", "t", "e", "s", "/">>
COMMENT_LINE == <<"#", " ", "S", "p", "e", "c", "-", "K", "i", "t", " ", "t", "e", "m", "p", "l", "a", "t", "e", "s", " ", "(", "o", "p", "t", "i", "o", "n", "a", "l", ",", " ", "f", "o", "r", " ", "r", "e", "f", "e", "r", "e", "n", "c", "e", ")">>

get_gitignore_entries == << << >>, COMMENT_LINE, SENTINEL >>

\* Python's `needle in text` on strings
OccursAt(needle, text, i) ==
    /\ i + Len(needle) - 1 <= Len(text)
    /\ \A j \in 1..Len(needle) : text[i + j - 1] = needle[j]
Contains(needle, text) == \E i \in 1..Len(text) : OccursAt(needle, text, i)
\* str.count for a needle that cannot overlap itself
CountOf(needle, text) == Cardinality({ i \in 1..Len(text) : OccursAt(needle, text, i) })

RECURSIVE JoinLines(_)
\* the text `for entry in entries: f.write(entry + '\n')` writes
JoinLines(entries) ==
    IF entries = << >> THEN << >>
    ELSE Head(entries) \o <<NL>> \o JoinLines(Tail(entries))

GITIGNORE == <<".gitignore">>

\* what update_gitignore reads: the file's text, "" when there is none
existing_content(fs) == IF Exists(fs, GITIGNORE) THEN fs[GITIGNORE].content ELSE << >>

\* update_gitignore's return value
update_gitignore_modified(fs, entries) == ~Contains(SENTINEL, existing_content(fs))

\* a faulty update_gitignore that appends the entries whatever the file holds
update_gitignore_always(fs, entries) ==
    WriteFile(fs, GITIGNORE, existing_content(fs) \o JoinLines(entries))

\* the tree update_gitignore leaves
update_gitignore(fs, entries) ==
    IF Contains(SENTINEL, existing_content(fs))
    THEN fs
    ELSE WriteFile(fs, GITIGNORE, existing_content(fs) \o JoinLines(entries))

-----------------------------------------------------------------------------
(* spec_kit/core/installer.py: the registry and plugin resolution *)

\* AVAILABLE_PLUGINS, in the dict's insertion order
AVAILABLE_PLUGINS ==
    << [name |-> "api-development", aliases |-> {"api"}],
       [name |-> "ai-app", aliases |-> {"ai"}] >>

PluginNames == { AVAILABLE_PLUGINS[i].name : i \in 1..Len(AVAILABLE_PLUGINS) }

\* str.strip on the raw tokens
Strip(tok) == CASE tok = " API " -> "API" [] tok = " Y " -> "Y" [] OTHER -> tok
\* str.lower on the raw tokens
Lower(tok) == CASE tok = "API" -> "api" [] tok = "AI-App" -> "ai-app" [] tok = "Y" -> "y" [] OTHER -> tok

NotFound == "?"

\* a faulty resolution that appends the token that matched, not the entry's name
ResolveTokenAsTyped(tok) ==
    LET plugin == Lower(Strip(tok))
    IN  IF plugin \in PluginNames THEN plugin
        ELSE IF \E i \in 1..Len(AVAILABLE_PLUGINS) : plugin \in AVAILABLE_PLUGINS[i].aliases
        THEN plugin
        ELSE NotFound

\* one pass of the loop of select_plugins_from_args: the name appended, or NotFound
ResolveToken(tok) ==
    LET plugin == Lower(Strip(tok))
        hits == { i \in 1..Len(AVAILABLE_PLUGINS) : plugin \in AVAILABLE_PLUGINS[i].aliases }
    IN  IF plugin \in PluginNames THEN plugin
        ELSE IF hits # {} THEN AVAILABLE_PLUGINS[CHOOSE i \in hits : \A j \in hits : i <= j].name
        ELSE NotFound

\* select_plugins_from_args raises ValueError
HasUnknown(plugins) == \E i \in 1..Len(plugins) : ResolveToken(plugins[i]) = NotFound

\* select_plugins_from_args: the resolved list (when no token is unknown)
select_plugins_from_args(plugins) == [i \in 1..Len(plugins) |-> ResolveToken(plugins[i])]

\* int(x) on the words of an input line: 0 stands for "raises ValueError"
ParseInt(w) == CASE w = "1" -> 1 [] w = "2" -> 2 [] w = "3" -> 3 [] OTHER -> 0
IsNumber(w) == w \in {"1", "2", "3"}

\* a faulty loop that takes the number of the 'all' entry for the last plugin
PickNumbersUpToAll(line) ==
    [i \in 1..Len(line) |->
        IF ParseInt(line[i]) > Len(AVAILABLE_PLUGINS)
        THEN AVAILABLE_PLUGINS[Len(AVAILABLE_PLUGINS)].name
        ELSE AVAILABLE_PLUGINS[ParseInt(line[i])].name]

RECURSIVE PickNumbers(_)
\* the `for num in numbers` loop of select_plugins_interactive
PickNumbers(line) ==
    IF line = << >> THEN << >>
    ELSE LET num == ParseInt(Head(line))
         IN  (IF 1 <= num /\ num <= Len(AVAILABLE_PLUGINS)
              THEN << AVAILABLE_PLUGINS[num].name >> ELSE << >>)
             \o PickNumbers(Tail(line))

\* one pass of the `while True` loop of select_plugins_interactive on an input
\* line (split into words): the selection, or << >> when the loop prompts again
SelectFromLine(line) ==
    IF line = << "all" >>
    THEN [i \in 1..Len(AVAILABLE_PLUGINS) |-> AVAILABLE_PLUGINS[i].name]
    ELSE IF \E i \in 1..Len(line) : ~IsNumber(line[i]) THEN << >>
    ELSE PickNumbers(line)

-----------------------------------------------------------------------------
(* spec_kit/core/installer.py: validation *)

CORE_MARKER == <<"core", "CLAUDE.md">>
CLAUDE_MD == <<"CLAUDE.md">>
SKILLS == <<".claude", "skills">>
SPECS == <<"specs">>
TEMPLATES_CACHE == <<".spec-kit-templates">>
TEMPLATES_SRC == <<"templates", "specs">>
ARCH_TEMPLATE == <<"templates", "specs", "architecture.template.md">>
ARCH_DEST == <<"specs", "architecture.md">>

\* validate_environment: "ok" or the exception raised
validate_environment(sfs) ==
    IF ~Exists(sfs, CORE_MARKER) THEN "FileNotFoundError" ELSE "ok"

\* a faulty validate_target in which force lets every target through
validate_target_force_all(fs, force) ==
    IF force THEN "ok"
    ELSE IF ~Exists(fs, << >>) THEN "FileNotFoundError"
    ELSE IF ~IsDir(fs, << >>) THEN "NotADirectoryError"
    ELSE IF Exists(fs, CLAUDE_MD) THEN "FileExistsError"
    ELSE "ok"

\* a faulty validate_target that forgets the force flag
validate_target_no_force(fs, force) ==
    IF ~Exists(fs, << >>) THEN "FileNotFoundError"
    ELSE IF ~IsDir(fs, << >>) THEN "NotADirectoryError"
    ELSE IF Exists(fs, CLAUDE_MD) THEN "FileExistsError"
    ELSE "ok"

\* validate_target: "ok" or the exception raised
validate_target(fs, force) ==
    IF ~Exists(fs, << >>) THEN "FileNotFoundError"
    ELSE IF ~IsDir(fs, << >>) THEN "NotADirectoryError"
    ELSE IF Exists(fs, CLAUDE_MD) /\ ~force THEN "FileExistsError"
    ELSE "ok"

-----------------------------------------------------------------------------
(* spec_kit/core/installer.py: the write phase *)

\* a faulty marker copy that keeps a CLAUDE.md it finds
copy_marker_keep(sfs, fs) == safe_copy_file(sfs, CORE_MARKER, fs, CLAUDE_MD, FALSE)

\* a faulty first step that appends to .gitignore right after the marker copy
copy_marker_then_gitignore(sfs, fs) ==
    update_gitignore(safe_copy_file(sfs, CORE_MARKER, fs, CLAUDE_MD, TRUE), get_gitignore_entries)

\* install_core, first step: the marker copy
copy_marker(sfs, fs) == safe_copy_file(sfs, CORE_MARKER, fs, CLAUDE_MD, TRUE)

\* a faulty skeleton without the two specs subdirectories
make_skeleton_flat(fs) == ensure_directory(ensure_directory(fs, SKILLS), SPECS)

\* install_core, second step: .claude/skills and the specs skeleton
make_skeleton(fs) ==
    ensure_directory(ensure_directory(ensure_directory(fs, SKILLS),
                                      SPECS \o <<"features">>), SPECS \o <<"api">>)

install_core(sfs, fs) == make_skeleton(copy_marker(sfs, fs))

\* a faulty pass that makes the plugin's directory before it looks for the source
install_plugin_directory_first(sfs, fs, plugin) ==
    LET plugin_src == <<"plugins", plugin>>
        plugin_dest == SKILLS \o <<plugin>>
        templates_src == plugin_src \o <<"templates">>
        references_dest == plugin_dest \o <<"references">>
        template_dest == TEMPLATES_CACHE \o <<plugin>>
        made == ensure_directory(fs, plugin_dest)
        skilled == safe_copy_file(sfs, plugin_src \o <<"skill.md">>, made,
                                  plugin_dest \o <<"SKILL.md">>, TRUE)
        referenced == safe_copy_tree(sfs, templates_src,
                                     ensure_directory(skilled, references_dest),
                                     references_dest, TRUE)
    IN  IF ~Exists(sfs, plugin_src \o <<"skill.md">>) THEN made
        ELSE IF ~IsDir(sfs, templates_src) THEN skilled
        ELSE safe_copy_tree(sfs, templates_src,
                            ensure_directory(referenced, template_dest),
                            template_dest, TRUE)

\* one pass of the loop of install_plugins
install_plugin(sfs, fs, plugin) ==
    LET plugin_src == <<"plugins", plugin>>
        plugin_dest == SKILLS \o <<plugin>>
        skill_src == plugin_src \o <<"skill.md">>
        skill_dest == plugin_dest \o <<"SKILL.md">>
        templates_src == plugin_src \o <<"templates">>
        references_dest == plugin_dest \o <<"references">>
        template_dest == TEMPLATES_CACHE \o <<plugin>>
        made == ensure_directory(fs, plugin_dest)
        skilled == safe_copy_file(sfs, skill_src, made, skill_dest, TRUE)
        referenced == safe_copy_tree(sfs, templates_src,
                                     ensure_directory(skilled, references_dest),
                                     references_dest, TRUE)
    IN  IF ~Exists(sfs, plugin_src) THEN fs
        ELSE IF ~Exists(sfs, skill_src) THEN made
        ELSE IF ~IsDir(sfs, templates_src) THEN skilled
        ELSE safe_copy_tree(sfs, templates_src,
                            ensure_directory(referenced, template_dest),
                            template_dest, TRUE)

RECURSIVE install_plugins(_, _, _)
\* install_plugins over the whole list, in order
install_plugins(sfs, fs, plugins) ==
    IF plugins = << >> THEN fs
    ELSE install_plugins(sfs, install_plugin(sfs, fs, Head(plugins)), Tail(plugins))

\* install_templates
install_templates(sfs, fs) ==
    IF ~Exists(sfs, TEMPLATES_SRC) THEN fs
    ELSE safe_copy_tree(sfs, TEMPLATES_SRC, fs, SPECS, TRUE)

\* offer_architecture_doc: response is the answer typed, "^C" a keyboard interrupt
offer_architecture_doc(sfs, fs, interactive, response) ==
    IF ~interactive THEN fs
    ELSE IF response \in {"y", "yes"} /\ Exists(sfs, ARCH_TEMPLATE)
    THEN safe_copy_file(sfs, ARCH_TEMPLATE, fs, ARCH_DEST, TRUE)
    ELSE fs

\* a faulty update that appends the entries whatever the file holds
update_project_gitignore_append(fs) ==
    WriteFile(fs, GITIGNORE, existing_content(fs) \o JoinLines(get_gitignore_entries))

\* update_project_gitignore
update_project_gitignore(fs) == update_gitignore(fs, get_gitignore_entries)

\* the whole write phase of run_installation, with nothing interrupting it
write_phase(sfs, fs, plugins, interactive, response) ==
    update_project_gitignore(
        offer_architecture_doc(sfs,
            install_templates(sfs, install_plugins(sfs, install_core(sfs, fs), plugins)),
            interactive, response))

-----------------------------------------------------------------------------
(* spec_kit/core/validator.py *)

\* ValidationResult(passed, message, item); a message is the sequence of its parts
ValidationResult(passed, message, item) ==
    [passed |-> passed, message |-> message, item |-> item]

\* a Validator right after __init__
NewValidator == [results |-> << >>, pass_count |-> 0, fail_count |-> 0]

\* the tail shared by _check_file and _check_dir: count the result and append it
Record(v, result) ==
    [results |-> Append(v.results, result),
     pass_count |-> v.pass_count + (IF result.passed THEN 1 ELSE 0),
     fail_count |-> v.fail_count + (IF result.passed THEN 0 ELSE 1)]

_check_file_result(fs, path) ==
    IF IsFile(fs, path)
    THEN ValidationResult(TRUE, path, path)
    ELSE ValidationResult(FALSE, path \o <<" (missing)">>, path)

_check_dir_result(fs, path) ==
    IF IsDir(fs, path)
    THEN ValidationResult(TRUE, path \o <<"/">>, path)
    ELSE ValidationResult(FALSE, path \o <<"/", " (missing)">>, path)

\* a value of the dict run_all_checks returns: a list of results, or (specs_warning)
\* a single result
Bucket(items) == [list |-> TRUE, items |-> items]
Single(item) == [list |-> FALSE, items |-> << item >>]

\* dict.update
Update(d, e) == [key \in DOMAIN d \cup DOMAIN e |-> IF key \in DOMAIN e THEN e[key] ELSE d[key]]
EmptyDict == [key \in {} |-> Bucket(<< >>)]

claude_skills_empty(fs) == IF Exists(fs, SKILLS) THEN Entries(fs, SKILLS) = {} ELSE TRUE

\* check_core_files: the Validator it leaves (v) and the dict it returns (out)
check_core_files(v, fs) ==
    LET r1 == _check_file_result(fs, CLAUDE_MD)
        r2 == _check_dir_result(fs, SKILLS)
        r3 == _check_dir_result(fs, SPECS)
        v3 == Record(Record(Record(v, r1), r2), r3)
        warn == ValidationResult(FALSE, <<".claude/skills/ (empty - no plugins installed)">>, SKILLS)
    IN  IF claude_skills_empty(fs)
        THEN [v |-> [v3 EXCEPT !.fail_count = @ + 1],
              out |-> ("core" :> Bucket(<< r1, r2, r3, warn >>))]
        ELSE [v |-> v3, out |-> ("core" :> Bucket(<< r1, r2, r3 >>))]

\* the directories check_plugins walks
PluginDirs(fs) == { p \in Entries(fs, SKILLS) : IsDir(fs, p) }

\* check_plugins: the results of one plugin directory
plugin_results(fs, plugin_dir) ==
    LET plugin_name == plugin_dir[Len(plugin_dir)]
        skill_file == plugin_dir \o <<"SKILL.md">>
        references_dir == plugin_dir \o <<"references">>
        first == IF Exists(fs, skill_file)
                 THEN ValidationResult(TRUE, <<"Plugin: ", plugin_name>>, skill_file)
                 ELSE ValidationResult(FALSE, <<"Plugin: ", plugin_name, " (missing SKILL.md)">>, skill_file)
    IN  IF IsDir(fs, references_dir)
        THEN << first, ValidationResult(TRUE, <<plugin_name, "/references/">>, references_dir) >>
        ELSE << first >>

CountPassed(items) == Cardinality({ i \in 1..Len(items) : items[i].passed })
CountFailed(items) == Cardinality({ i \in 1..Len(items) : ~items[i].passed })

RECURSIVE CountOver(_, _, _)
\* the results with the given verdict over the plugin directories
CountOver(fs, dirs, passed) ==
    IF dirs = {} THEN 0
    ELSE LET d == CHOOSE d \in dirs : TRUE
             items == plugin_results(fs, d)
         IN  (IF passed THEN CountPassed(items) ELSE CountFailed(items))
             + CountOver(fs, dirs \ {d}, passed)

\* a faulty check_plugins that only looks at the plugins of the registry
check_plugins_known_only(v, fs) ==
    LET dirs == { p \in PluginDirs(fs) : p[Len(p)] \in PluginNames }
    IN  IF ~Exists(fs, SKILLS)
        THEN [v |-> v, out |-> ("plugins" :> Bucket(<< >>))]
        ELSE [v |-> [v EXCEPT !.pass_count = @ + CountOver(fs, dirs, TRUE),
                              !.fail_count = @ + CountOver(fs, dirs, FALSE)],
              out |-> [name \in { p[Len(p)] : p \in dirs } |->
                          Bucket(plugin_results(fs, SKILLS \o <<name>>))]]

\* check_plugins: counts without appending to self.results
check_plugins(v, fs) ==
    IF ~Exists(fs, SKILLS)
    THEN [v |-> v, out |-> ("plugins" :> Bucket(<< >>))]
    ELSE [v |-> [v EXCEPT !.pass_count = @ + CountOver(fs, PluginDirs(fs), TRUE),
                          !.fail_count = @ + CountOver(fs, PluginDirs(fs), FALSE)],
          out |-> [name \in { p[Len(p)] : p \in PluginDirs(fs) } |->
                      Bucket(plugin_results(fs, SKILLS \o <<name>>))]]

template_files == << <<"specs", "feature.template.md">>, <<"specs", "api.template.yaml">> >>

\* check_templates
check_templates(v, fs) ==
    LET r1 == _check_dir_result(fs, <<"specs", "features">>)
        r2 == _check_dir_result(fs, <<"specs", "api">>)
        v2 == Record(Record(v, r1), r2)
        found == SelectSeq(template_files, LAMBDA t : Exists(fs, t))
        extra == [i \in 1..Len(found) |-> ValidationResult(TRUE, <<"Template: ">> \o found[i], found[i])]
    IN  [v |-> [v2 EXCEPT !.pass_count = @ + Len(found)],
         out |-> ("templates" :> Bucket(<< r1, r2 >> \o extra))]

README == <<"README.md">>

\* check_documentation
check_documentation(v, fs) ==
    IF Exists(fs, README)
    THEN [v |-> [v EXCEPT !.pass_count = @ + 1],
          out |-> ("documentation" :> Bucket(<< ValidationResult(TRUE, README, README) >>))]
    ELSE [v |-> v, out |-> ("documentation" :> Bucket(<< >>))]

FEATURES == <<"specs", "features">>
SUMMARY == <<"specs", "SPECIFICATIONS_SUMMARY.md">>
\* the names glob("*.md") matches, among the names the trees use
MdNames == {"a.md", "b.md", "c.md", ".d.md"}
\* f.name.startswith('.')
IsHidden(name) == name = ".d.md"

\* a faulty check_specs_summary that asks for more than three specs
check_specs_summary_over_three(fs) ==
    LET spec_files == { p \in Entries(fs, FEATURES) : p[Len(p)] \in MdNames }
        spec_count == Cardinality({ f \in spec_files : ~IsHidden(f[Len(f)]) })
    IN  IF ~Exists(fs, FEATURES) THEN << >>
        ELSE IF spec_count > 3 /\ ~Exists(fs, SUMMARY)
        THEN << ValidationResult(FALSE, <<"Consider creating specs/SPECIFICATIONS_SUMMARY.md">>, SUMMARY) >>
        ELSE << >>

\* check_specs_summary: << >> for None, else the one result
check_specs_summary(fs) ==
    LET spec_files == { p \in Entries(fs, FEATURES) : p[Len(p)] \in MdNames }
        spec_count == Cardinality({ f \in spec_files : ~IsHidden(f[Len(f)]) })
    IN  IF ~Exists(fs, FEATURES) THEN << >>
        ELSE IF spec_count >= 3 /\ ~Exists(fs, SUMMARY)
        THEN << ValidationResult(FALSE, <<"Consider creating specs/SPECIFICATIONS_SUMMARY.md">>, SUMMARY) >>
        ELSE << >>

\* a faulty run that stops after a core phase that recorded a failure
run_checks_stop_on_failure(v, fs) ==
    LET c1 == check_core_files(v, fs)
        c2 == check_plugins(c1.v, fs)
        c3 == check_templates(c2.v, fs)
        c4 == check_documentation(c3.v, fs)
        all_results == Update(Update(Update(Update(EmptyDict, c1.out), c2.out), c3.out), c4.out)
        specs_warning == check_specs_summary(fs)
    IN  IF c1.v.fail_count > 0 THEN [v |-> c1.v, out |-> c1.out]
        ELSE [v |-> c4.v,
              out |-> IF specs_warning # << >>
                      THEN Update(all_results, "specs_warning" :> Single(specs_warning[1]))
                      ELSE all_results]

\* run_all_checks: the Validator it leaves (v) and the dict it returns (out)
run_checks(v, fs) ==
    LET c1 == check_core_files(v, fs)
        c2 == check_plugins(c1.v, fs)
        c3 == check_templates(c2.v, fs)
        c4 == check_documentation(c3.v, fs)
        all_results == Update(Update(Update(Update(EmptyDict, c1.out), c2.out), c3.out), c4.out)
        specs_warning == check_specs_summary(fs)
    IN  [v |-> c4.v,
         out |-> IF specs_warning # << >>
                 THEN Update(all_results, "specs_warning" :> Single(specs_warning[1]))
                 ELSE all_results]

\* a faulty run_all_checks that keeps the counters and results it finds
run_all_checks_no_reset(v, fs) == run_checks(v, fs)

\* run_all_checks: the counters and results are reset, then the checks run
run_all_checks(v, fs) == run_checks(NewValidator, fs)

\* a faulty get_exit_code that looks at the passes
get_exit_code_by_pass(v) == IF v.pass_count > 0 THEN 0 ELSE 1

\* get_exit_code
get_exit_code(v) == IF v.fail_count = 0 THEN 0 ELSE 1

\* the keys print_results does not take for plugin names
PHASE_KEYS == {"core", "templates", "documentation", "specs_warning"}

\* the lines print_results writes for a list of results: (style, message) pairs
ResultLines(items, verbose) ==
    LET shown == SelectSeq(items, LAMBDA r : verbose \/ ~r.passed)
    IN  [i \in 1..Len(shown) |->
            [style |-> IF shown[i].passed THEN "success" ELSE "error", text |-> shown[i].message]]

\* print_results: what it writes, section by section (a missing section is << >>;
\* the plugin sections are keyed by name, the dict's order being that of iterdir);
\* a specs_warning entry that is a list has no .message, and the call raises
print_results(v, rep, verbose) ==
    LET plugin_keys == DOMAIN rep \ PHASE_KEYS
        section(key, title, show) ==
            IF show THEN << [style |-> "plain", text |-> <<title>>] >> \o ResultLines(rep[key].items, verbose)
            ELSE << >>
    IN  IF "specs_warning" \in DOMAIN rep /\ rep["specs_warning"].list
        THEN [kind |-> "AttributeError"]
        ELSE
        [kind |-> "text",
         core |-> section("core", "Core Files:", "core" \in DOMAIN rep),
         plugins |-> [name \in plugin_keys |-> ResultLines(rep[name].items, verbose)],
         templates |-> section("templates", "Templates:",
                               "templates" \in DOMAIN rep /\ rep["templates"].items # << >>),
         documentation |-> section("documentation", "Documentation:",
                                   /\ "documentation" \in DOMAIN rep
                                   /\ rep["documentation"].items # << >>
                                   /\ verbose),
         warning |-> IF "specs_warning" \in DOMAIN rep
                     THEN << [style |-> "warning", text |-> rep["specs_warning"].items[1].message] >>
                     ELSE << >>,
         passed |-> v.pass_count,
         failed |-> v.fail_count,
         verdict |-> IF v.fail_count = 0 THEN "Spec-Kit installation is valid!" ELSE "Some checks failed"]

\* the JSON form of a list of results
JsonResults(items) ==
    [i \in 1..Len(items) |->
        [passed |-> items[i].passed, message |-> items[i].message, item |-> items[i].item]]

\* a faulty print_json that dumps the buckets of the four phases only
print_json_phases_only(v, rep) ==
    IF "specs_warning" \in DOMAIN rep /\ rep["specs_warning"].list
    THEN [kind |-> "AttributeError"]
    ELSE [kind |-> "json",
          valid |-> v.fail_count = 0,
          pass_count |-> v.pass_count,
          fail_count |-> v.fail_count,
          checks |-> [category \in { c \in DOMAIN rep : c \in PHASE_KEYS /\ rep[c].list } |->
                         JsonResults(rep[category].items)],
          warnings |-> IF "specs_warning" \in DOMAIN rep
                       THEN << [message |-> rep["specs_warning"].items[1].message,
                                item |-> rep["specs_warning"].items[1].item] >>
                       ELSE << >>]

\* print_json: the object it dumps ('warnings' absent is << >>); a specs_warning
\* entry that is a list has no .message, and the call raises
print_json(v, rep) ==
    IF "specs_warning" \in DOMAIN rep /\ rep["specs_warning"].list
    THEN [kind |-> "AttributeError"]
    ELSE [kind |-> "json",
          valid |-> v.fail_count = 0,
          pass_count |-> v.pass_count,
          fail_count |-> v.fail_count,
          checks |-> [category \in { c \in DOMAIN rep : c # "specs_warning" /\ rep[c].list } |->
                         JsonResults(rep[category].items)],
          warnings |-> IF "specs_warning" \in DOMAIN rep
                       THEN << [message |-> rep["specs_warning"].items[1].message,
                                item |-> rep["specs_warning"].items[1].item] >>
                       ELSE << >>]

\* nothing printed yet
NoOutput == [kind |-> "none"]

-----------------------------------------------------------------------------
(* The trees the behaviours start from *)

RECURSIVE WriteAll(_, _)
\* the tree with the listed << path, text >> files written into it
WriteAll(fs, files) ==
    IF files = << >> THEN fs
    ELSE WriteAll(WriteFile(fs, Head(files)[1], Head(files)[2]), Tail(files))

NoTree == [p \in {} |-> Dir]
EmptyDir == (<< >> :> Dir)

\* a complete source tree, after the fixture of tests/conftest.py
FullSource ==
    WriteAll(EmptyDir,
      << << CORE_MARKER, <<"C">> >>,
         << <<"plugins", "api-development", "skill.md">>, <<"A">> >>,
         << <<"plugins", "api-development", "templates", "fastapi-endpoint.py">>, <<"f">> >>,
         << <<"plugins", "api-development", "templates", "sam", "template.yaml">>, <<"s">> >>,
         << <<"plugins", "ai-app", "skill.md">>, <<"B">> >>,
         << <<"plugins", "ai-app", "templates", "anthropic-client.py">>, <<"a">> >>,
         << <<"templates", "specs", "feature.template.md">>, <<"F">> >>,
         << <<"templates", "specs", "api.template.yaml">>, <<"Y">> >>,
         << ARCH_TEMPLATE, <<"R">> >> >>)

\* a project holding an earlier installation that has been edited locally, and an
\* updated .gitignore
ExistingProject ==
    WriteAll(EmptyDir,
      << << CLAUDE_MD, <<"e">> >>,
         << GITIGNORE, <<"x", NL>> \o SENTINEL \o <<NL>> >>,
         << README, <<"r">> >>,
         << SKILLS \o <<"api-development", "SKILL.md">>, <<"e">> >>,
         << SKILLS \o <<"api-development", "references", "fastapi-endpoint.py">>, <<"e">> >>,
         << SKILLS \o <<"api-development", "references", "own.py">>, <<"o">> >> >>)

\* a project with its own specs and a .gitignore that does not end in a newline
PlainProject ==
    WriteAll(EmptyDir,
      << << GITIGNORE, <<"x">> >>,
         << FEATURES \o <<"a.md">>, <<"1">> >>,
         << FEATURES \o <<"b.md">>, <<"2">> >>,
         << FEATURES \o <<"c.md">>, <<"3">> >> >>)

\* the source trees and target trees a behaviour of the installer starts from
InstallerStarts ==
    { << FullSource, t >> :
         t \in { NoTree, (<< >> :> File(<<"x">>)), EmptyDir, ExistingProject, PlainProject } }
    \cup { << sfs, EmptyDir >> :
             sfs \in { FullSource,
                       Remove(FullSource, CORE_MARKER),
                       Remove(FullSource, <<"plugins", "ai-app">>),
                       Remove(FullSource, <<"plugins", "ai-app", "skill.md">>),
                       Remove(Remove(FullSource, <<"templates">>),
                              <<"plugins", "api-development", "templates">>) } }

-----------------------------------------------------------------------------
(* Initial states *)

NoRequest == [plugins |-> << >>, force |-> FALSE, interactive |-> FALSE,
              confirm |-> "unasked", arch |-> "unasked"]
NoPrev == [on |-> FALSE, req |-> NoRequest, tree |-> NoTree]
NoBroken == [on |-> FALSE, req |-> NoRequest, selected |-> << >>, tree |-> NoTree]

InitInstaller ==
    /\ selected_plugins = << >>
    /\ pc = "idle"
    /\ k = 1
    /\ req = NoRequest
    /\ outcome = "none"
    /\ calls = 0
    /\ before = target
    /\ broken = NoBroken
    /\ prev = NoPrev

InitValidator ==
    /\ results = << >>
    /\ pass_count = 0
    /\ fail_count = 0
    /\ report = EmptyDict
    /\ exit_code = -1
    /\ checks = 0
    /\ lastRun = [on |-> FALSE, pass_count |-> 0, fail_count |-> 0, tree |-> NoTree]
    /\ output = NoOutput

InitGitignoreVars ==
    /\ gi_calls = 0
    /\ gi_modified = FALSE

\* a ConversationManager and an empty todos table, neither used yet
InitExamples(turns) ==
    /\ messages = << >>
    /\ max_turns \in turns
    /\ removed = FALSE
    /\ adds = 0
    /\ todos = [p \in {"medium", "high"} |-> 0]
    /\ posts = 0
    /\ todos_response = [status |-> 0, count |-> 0, skip |-> 0, limit |-> 0]

Init ==
    /\ \E start \in InstallerStarts : spec_kit_root = start[1] /\ target = start[2]
    /\ edits = 0
    /\ InitInstaller
    /\ InitValidator
    /\ InitGitignoreVars
    /\ InitExamples({10})

-----------------------------------------------------------------------------
(* run_installation, step by step *)

\* the plugin lists a caller passes (<< >>: None or an empty list)
PluginArgs == { << >>, <<" API ", "AI-App">>, <<"ai", "nope">> }

\* the lines typed at the selection prompt, split into words
InputLines == { <<"all">>, <<"1">>, <<"2", "1">>, <<"3">>, <<"1", "3">>, <<"x">>, << >> }

\* the answers typed at a y/n prompt; "^C" is a keyboard interrupt
Answers == { "y", " Y ", "n", "^C" }

WritePhase == { "copy_marker", "make_skeleton", "install_plugins", "install_templates",
                "offer_architecture_doc", "update_project_gitignore", "print_summary" }

Exceptions == { "FileNotFoundError", "NotADirectoryError", "FileExistsError", "ValueError" }

\* a faulty start that validates the source only
preflight_env_only(sfs, fs, force) == validate_environment(sfs)

\* the two validations run_installation starts with: "ok" or the first exception
preflight(sfs, fs, force) ==
    IF validate_environment(sfs) # "ok" THEN validate_environment(sfs)
    ELSE validate_target(fs, force)

\* a faulty resolution that stores each plugin as soon as it is resolved
selected_after_args_partial(selected, plugins) ==
    LET resolved == [i \in 1..Len(plugins) |-> ResolveToken(plugins[i])]
    IN  SelectSeq(resolved, LAMBDA name : name # NotFound)

\* self.selected_plugins after select_plugins_from_args(plugins)
selected_after_args(selected, plugins) ==
    IF HasUnknown(plugins) THEN selected ELSE select_plugins_from_args(plugins)

\* a faulty confirm_installation that takes an interrupt for a yes
confirm_installation_through_interrupt(response) ==
    IF response = "^C" THEN TRUE ELSE Lower(Strip(response)) \in {"y", "yes"}

\* confirm_installation
confirm_installation(response) ==
    IF response = "^C" THEN FALSE ELSE Lower(Strip(response)) \in {"y", "yes"}

\* commands/init.py, execute: the exit status of the init command for each way
\* run_installation ends.  SystemExit(0) is no Exception and passes through every
\* handler; "interrupted" is a KeyboardInterrupt nothing below execute has caught
init_exit_code(how) ==
    CASE how \in {"ok", "cancelled"} -> 0
      [] how = "SystemExit" -> 0
      [] how \in {"FileNotFoundError", "FileExistsError", "ValueError"} -> 1
      [] how = "NotADirectoryError" -> 1
      [] how = "interrupted" -> 130

\* the Validator of a verify process is gone once the process has ended
ForgetValidator ==
    /\ results' = << >>
    /\ pass_count' = 0
    /\ fail_count' = 0
    /\ report' = EmptyDict
    /\ exit_code' = -1
    /\ output' = NoOutput
    /\ UNCHANGED << checks, lastRun >>

\* run_installation up to the first prompt or the start of the write phase
Begin(plugins, force, interactive) ==
    /\ pc = "idle"
    /\ calls < MaxCalls
    /\ calls' = calls + 1
    /\ req' = [plugins |-> plugins, force |-> force, interactive |-> interactive,
               confirm |-> "unasked", arch |-> "unasked"]
    /\ before' = target
    /\ k' = 1
    /\ LET checked == preflight(spec_kit_root, target, force)
       IN  IF checked # "ok"
           THEN /\ outcome' = checked
                /\ UNCHANGED << pc, selected_plugins >>
           ELSE IF plugins # << >>
           THEN /\ selected_plugins' = selected_after_args(selected_plugins, plugins)
                /\ IF HasUnknown(plugins)
                   THEN outcome' = "ValueError" /\ pc' = "idle"
                   ELSE outcome' = "running" /\ pc' = (IF interactive THEN "confirm" ELSE "copy_marker")
           ELSE IF interactive
           THEN /\ pc' = "select"
                /\ outcome' = "running"
                /\ UNCHANGED selected_plugins
           ELSE /\ selected_plugins' = <<"api-development">>
                /\ outcome' = "running"
                /\ pc' = "copy_marker"
    /\ ForgetValidator
    /\ UNCHANGED << spec_kit_root, target, broken, edits, prev, gitignoreVars, exampleVars >>

\* select_plugins_interactive: one line read at the prompt
SelectLine(line) ==
    /\ pc = "select"
    /\ IF SelectFromLine(line) # << >>
       THEN selected_plugins' = SelectFromLine(line) /\ pc' = "confirm"
       ELSE UNCHANGED << selected_plugins, pc >>
    /\ UNCHANGED << spec_kit_root, target, k, req, outcome, calls, before, broken, edits, prev,
                    validatorVars, gitignoreVars, exampleVars >>

\* select_plugins_interactive: a keyboard interrupt at the prompt raises SystemExit(0)
SelectInterrupt ==
    /\ pc = "select"
    /\ pc' = "idle"
    /\ outcome' = "SystemExit"
    /\ UNCHANGED << spec_kit_root, target, selected_plugins, k, req, calls, before, broken, edits,
                    prev, validatorVars, gitignoreVars, exampleVars >>

\* the confirmation prompt of run_installation
Confirm(response) ==
    /\ pc = "confirm"
    /\ IF confirm_installation(response)
       THEN pc' = "copy_marker" /\ UNCHANGED outcome
       ELSE pc' = "idle" /\ outcome' = "cancelled"
    /\ req' = [req EXCEPT !.confirm = Lower(Strip(response))]
    /\ UNCHANGED << spec_kit_root, target, selected_plugins, k, calls, before, broken, edits,
                    prev, validatorVars, gitignoreVars, exampleVars >>

WriteStep(next) ==
    /\ pc' = next
    /\ UNCHANGED << spec_kit_root, selected_plugins, outcome, calls, before, broken, edits, prev,
                    validatorVars, gitignoreVars, exampleVars >>

CopyMarker ==
    /\ pc = "copy_marker"
    /\ target' = copy_marker(spec_kit_root, target)
    /\ UNCHANGED << k, req >>
    /\ WriteStep("make_skeleton")

MakeSkeleton ==
    /\ pc = "make_skeleton"
    /\ target' = make_skeleton(target)
    /\ k' = 1
    /\ UNCHANGED req
    /\ WriteStep("install_plugins")

\* one pass of the loop of install_plugins
InstallPlugin ==
    /\ pc = "install_plugins"
    /\ k <= Len(selected_plugins)
    /\ target' = install_plugin(spec_kit_root, target, selected_plugins[k])
    /\ k' = k + 1
    /\ UNCHANGED req
    /\ WriteStep(IF k = Len(selected_plugins) THEN "install_templates" ELSE "install_plugins")

InstallTemplates ==
    /\ pc = "install_templates"
    /\ target' = install_templates(spec_kit_root, target)
    /\ UNCHANGED << k, req >>
    /\ WriteStep("offer_architecture_doc")

OfferArchitectureDoc(response) ==
    /\ pc = "offer_architecture_doc"
    /\ req.interactive \/ response = "unasked"
    /\ req.interactive => response # "unasked"
    /\ target' = offer_architecture_doc(spec_kit_root, target, req.interactive, Lower(Strip(response)))
    /\ req' = [req EXCEPT !.arch = Lower(Strip(response))]
    /\ UNCHANGED k
    /\ WriteStep("update_project_gitignore")

UpdateProjectGitignore ==
    /\ pc = "update_project_gitignore"
    /\ target' = update_project_gitignore(target)
    /\ UNCHANGED << k, req >>
    /\ WriteStep("print_summary")

\* print_summary, and the call returns
PrintSummary ==
    /\ pc = "print_summary"
    /\ pc' = "idle"
    /\ outcome' = "ok"
    /\ prev' = [on |-> TRUE, req |-> req, tree |-> target]
    /\ broken' = NoBroken
    /\ UNCHANGED << spec_kit_root, target, selected_plugins, k, req, calls, before, edits,
                    validatorVars, gitignoreVars, exampleVars >>

\* whether the call being interrupted repeats the inputs of the interrupted call
\* it recovers
SameInputs ==
    /\ broken.on
    /\ req.force
    /\ req.plugins = broken.req.plugins
    /\ req.interactive = broken.req.interactive
    /\ selected_plugins = broken.selected
    /\ "unasked" \in {req.arch, broken.req.arch} \/ req.arch = broken.req.arch

\* the process is killed during the write phase (the Installer goes with it)
Interrupt ==
    /\ pc \in WritePhase
    /\ pc' = "idle"
    /\ outcome' = "interrupted"
    /\ broken' = IF SameInputs
                 THEN [broken EXCEPT !.req.arch = IF req.arch = "unasked" THEN @ ELSE req.arch]
                 ELSE [on |-> TRUE, req |-> req, selected |-> selected_plugins, tree |-> before]
    /\ selected_plugins' = << >>
    /\ prev' = NoPrev
    /\ UNCHANGED << spec_kit_root, target, k, req, calls, before, edits, validatorVars,
                    gitignoreVars, exampleVars >>

-----------------------------------------------------------------------------
(* The user's own changes to the target tree, between calls *)

CUSTOM == SKILLS \o <<"custom">>

ApplyEdit(fs, e) ==
    CASE e = "edit_claude" -> WriteFile(fs, CLAUDE_MD, <<"e">>)
      [] e = "rm_claude" -> Remove(fs, CLAUDE_MD)
      [] e = "rm_skill" -> Remove(fs, SKILLS \o <<"api-development", "SKILL.md">>)
      [] e = "edit_reference" ->
            WriteFile(fs, SKILLS \o <<"api-development", "references", "fastapi-endpoint.py">>, <<"e">>)
      [] e = "add_readme" -> WriteFile(fs, README, <<"r">>)
      [] e = "add_specs" ->
            WriteAll(fs, << << FEATURES \o <<"a.md">>, <<"1">> >>,
                            << FEATURES \o <<"b.md">>, <<"2">> >>,
                            << FEATURES \o <<".d.md">>, <<"4">> >> >>)
      [] e = "add_summary" -> WriteFile(fs, SUMMARY, <<"S">>)
      [] e = "rm_plugins" ->
            Remove(Remove(fs, SKILLS \o <<"api-development">>), SKILLS \o <<"ai-app">>)
      [] e = "add_custom" -> ensure_directory(fs, CUSTOM \o <<"references">>)
      [] e = "add_skills_file" -> WriteFile(fs, SKILLS \o <<"notes.txt">>, <<"n">>)
      [] e = "rm_specs" -> Remove(fs, SPECS)

VerifierEdits == { "rm_claude", "rm_skill", "add_readme", "add_specs", "add_summary",
                   "rm_plugins", "add_custom", "add_skills_file", "rm_specs" }

Edit(e) ==
    /\ pc = "idle"
    /\ IsDir(target, << >>)
    /\ edits < MaxEdits
    /\ edits' = edits + 1
    /\ target' = ApplyEdit(target, e)
    /\ outcome' = "none"
    /\ prev' = NoPrev
    /\ broken' = NoBroken
    /\ UNCHANGED << spec_kit_root, selected_plugins, pc, k, req, calls, before, validatorVars,
                    gitignoreVars, exampleVars >>

-----------------------------------------------------------------------------
(* The verifier *)

\* the Validator instance the variables hold
Self == [results |-> results, pass_count |-> pass_count, fail_count |-> fail_count]

Becomes(v) ==
    /\ results' = v.results
    /\ pass_count' = v.pass_count
    /\ fail_count' = v.fail_count

\* commands/verify.py, execute: a new Validator, run_all_checks, one of the two
\* renderers, get_exit_code; the process then stands at its return
Verify(json, verbose) ==
    /\ pc = "idle"
    /\ pc' = "verify_done"
    /\ LET ran == run_all_checks(NewValidator, target)
       IN  /\ Becomes(ran.v)
           /\ report' = ran.out
    /\ LET validator == [results |-> results', pass_count |-> pass_count', fail_count |-> fail_count']
       IN  /\ output' = IF json THEN print_json(validator, report')
                                ELSE print_results(validator, report', verbose)
           /\ exit_code' = get_exit_code(validator)
    /\ UNCHANGED << spec_kit_root, target, selected_plugins, k, req, outcome, calls, before,
                    broken, prev, edits, checks, lastRun, gitignoreVars, exampleVars >>

\* the verify process ends, and its Validator with it
VerifyExit ==
    /\ pc = "verify_done"
    /\ pc' = "idle"
    /\ ForgetValidator
    /\ UNCHANGED << spec_kit_root, target, selected_plugins, k, req, outcome, calls, before,
                    broken, prev, edits, gitignoreVars, exampleVars >>

RunAllChecks ==
    /\ checks < MaxChecks
    /\ checks' = checks + 1
    /\ LET ran == run_all_checks(Self, target)
       IN  /\ Becomes(ran.v)
           /\ report' = ran.out
           /\ lastRun' = [on |-> TRUE, pass_count |-> ran.v.pass_count,
                          fail_count |-> ran.v.fail_count, tree |-> target]
    /\ UNCHANGED << spec_kit_root, target, installerVars, edits, exit_code, output, gitignoreVars, exampleVars >>

\* a check method called on its own: it adds to the counters it finds
DirectCheck(v) ==
    /\ checks < MaxChecks
    /\ checks' = checks + 1
    /\ Becomes(v)
    /\ UNCHANGED << spec_kit_root, target, installerVars, edits, report, exit_code, lastRun,
                    output, gitignoreVars, exampleVars >>

CheckCoreFiles == DirectCheck(check_core_files(Self, target).v)
CheckPlugins == DirectCheck(check_plugins(Self, target).v)
CheckTemplates == DirectCheck(check_templates(Self, target).v)
CheckDocumentation == DirectCheck(check_documentation(Self, target).v)

GetExitCode ==
    /\ exit_code' = get_exit_code(Self)
    /\ UNCHANGED << spec_kit_root, target, installerVars, edits, results, pass_count, fail_count,
                    report, checks, lastRun, output, gitignoreVars, exampleVars >>

\* a faulty print_results that tallies the failures it prints
PrintResultsTallying(verbose) ==
    /\ checks < MaxChecks
    /\ checks' = checks + 1
    /\ output' = print_results(Self, report, verbose)
    /\ fail_count' = fail_count + (IF "core" \in DOMAIN report
                                    THEN CountFailed(report["core"].items) ELSE 0)
    /\ UNCHANGED << spec_kit_root, target, installerVars, edits, results, pass_count,
                    report, exit_code, lastRun, gitignoreVars, exampleVars >>

\* print_results called with the dict of the last run_all_checks
PrintResults(verbose) ==
    /\ checks < MaxChecks
    /\ checks' = checks + 1
    /\ output' = print_results(Self, report, verbose)
    /\ UNCHANGED << spec_kit_root, target, installerVars, edits, results, pass_count, fail_count,
                    report, exit_code, lastRun, gitignoreVars, exampleVars >>

\* print_json called with the dict of the last run_all_checks
PrintJson ==
    /\ checks < MaxChecks
    /\ checks' = checks + 1
    /\ output' = print_json(Self, report)
    /\ UNCHANGED << spec_kit_root, target, installerVars, edits, results, pass_count, fail_count,
                    report, exit_code, lastRun, gitignoreVars, exampleVars >>

-----------------------------------------------------------------------------
(* update_gitignore called on its own *)

UpdateGitignore ==
    /\ gi_calls < MaxGitCalls
    /\ gi_calls' = gi_calls + 1
    /\ gi_modified' = update_gitignore_modified(target, get_gitignore_entries)
    /\ target' = update_gitignore(target, get_gitignore_entries)
    /\ UNCHANGED << spec_kit_root, installerVars, edits, validatorVars, exampleVars >>

-----------------------------------------------------------------------------
(* examples/ai-chatbot: src/chat/conversation.py *)

\* get_turn_count: the user messages among the messages
get_turn_count(msgs) == Cardinality({ i \in 1..Len(msgs) : msgs[i] = "user" })

\* _trim_history: the messages it leaves
_trim_history(msgs, turns) ==
    LET turn_count == get_turn_count(msgs)
        pairs == (turn_count - turns) * 2
        messages_to_remove == IF pairs >= Len(msgs) THEN Len(msgs) - 2 ELSE pairs
    IN  IF turn_count <= turns THEN msgs
        ELSE IF messages_to_remove > 0 THEN SubSeq(msgs, messages_to_remove + 1, Len(msgs))
        ELSE msgs

\* was_trimmed
was_trimmed(msgs, turns) == get_turn_count(msgs) = turns

\* add_user_message: blank content raises ValueError before anything is appended
AddUserMessage(content) ==
    /\ adds < MaxAdds
    /\ adds' = adds + 1
    /\ messages' = IF content \in {"", " "} THEN messages
                   ELSE _trim_history(Append(messages, "user"), max_turns)
    /\ removed' = (content \notin {"", " "} /\ messages' # Append(messages, "user"))
    /\ UNCHANGED << spec_kit_root, target, installerVars, edits, validatorVars, gitignoreVars,
                    max_turns, todos, posts, todos_response >>

AddAssistantMessage ==
    /\ adds < MaxAdds
    /\ adds' = adds + 1
    /\ messages' = _trim_history(Append(messages, "assistant"), max_turns)
    /\ removed' = (messages' # Append(messages, "assistant"))
    /\ UNCHANGED << spec_kit_root, target, installerVars, edits, validatorVars, gitignoreVars,
                    max_turns, todos, posts, todos_response >>

-----------------------------------------------------------------------------
(* examples/fastapi-todo-api: src/api/todos.py *)

\* GET /todos: the status and the number of todos returned.  Query(ge=0) on skip,
\* Query(ge=1, le=100) on limit and the Priority enum are checked before the
\* function body runs, and a value outside them is answered with 422.
list_todos(table, completed, priority, skip, limit) ==
    LET matching == IF completed = "true" THEN 0
                    ELSE IF priority = "none" THEN table["medium"] + table["high"]
                    ELSE table[priority]
        after_offset == IF matching > skip THEN matching - skip ELSE 0
    IN  IF skip < 0 \/ limit < 1 \/ limit > 100 \/ priority \notin {"none", "medium", "high"}
        THEN [status |-> 422, count |-> 0, skip |-> skip, limit |-> limit]
        ELSE [status |-> 200,
              count |-> IF after_offset > limit THEN limit ELSE after_offset,
              skip |-> skip, limit |-> limit]

\* POST /todos: a new row, never completed
CreateTodo(priority) ==
    /\ posts < MaxPosts
    /\ posts' = posts + 1
    /\ todos' = [todos EXCEPT ![priority] = @ + 1]
    /\ UNCHANGED << spec_kit_root, target, installerVars, edits, validatorVars, gitignoreVars,
                    messages, max_turns, removed, adds, todos_response >>

ListTodos(completed, priority, skip, limit) ==
    /\ todos_response' = list_todos(todos, completed, priority, skip, limit)
    /\ UNCHANGED << spec_kit_root, target, installerVars, edits, validatorVars, gitignoreVars,
                    messages, max_turns, removed, adds, todos, posts >>

-----------------------------------------------------------------------------
(* Specifications *)

Next ==
    \/ \E plugins \in PluginArgs, force \in BOOLEAN, interactive \in BOOLEAN :
          Begin(plugins, force, interactive)
    \/ \E line \in InputLines : SelectLine(line)
    \/ SelectInterrupt
    \/ \E response \in Answers : Confirm(response)
    \/ CopyMarker
    \/ MakeSkeleton
    \/ InstallPlugin
    \/ InstallTemplates
    \/ \E response \in Answers \cup {"unasked"} : OfferArchitectureDoc(response)
    \/ UpdateProjectGitignore
    \/ PrintSummary
    \/ Interrupt
    \/ \E json \in BOOLEAN, verbose \in BOOLEAN : Verify(json, verbose)
    \/ VerifyExit

\* the installer and the verify command on one target tree
Spec == Init /\ [][Next]_vars

InitSelect ==
    /\ spec_kit_root = FullSource
    /\ target \in { EmptyDir, ExistingProject }
    /\ edits = 0
    /\ InitInstaller
    /\ InitValidator
    /\ InitGitignoreVars
    /\ InitExamples({10})

NextSelect ==
    \/ \E plugins \in PluginArgs \cup { <<"api">>, <<"api-development">>, <<"ai">>, <<"ai-app">>,
                                         <<"api", "api-development">> },
          force \in BOOLEAN, interactive \in BOOLEAN :
          Begin(plugins, force, interactive)
    \/ \E line \in InputLines \cup { <<"1", "1">> } : SelectLine(line)
    \/ SelectInterrupt
    \/ \E response \in Answers : Confirm(response)
    \/ CopyMarker
    \/ MakeSkeleton
    \/ InstallPlugin
    \/ InstallTemplates
    \/ \E response \in Answers \cup {"unasked"} : OfferArchitectureDoc(response)
    \/ UpdateProjectGitignore
    \/ PrintSummary

\* the init command run to its end, with every way of choosing the plugins
SpecSelect == InitSelect /\ [][NextSelect]_vars

\* a tree as run_installation leaves it in an empty directory
Installed(sfs, plugins) == write_phase(sfs, EmptyDir, plugins, FALSE, "unasked")

VerifyTrees ==
    { NoTree, EmptyDir, ExistingProject, PlainProject,
      Installed(FullSource, <<"api-development">>),
      Installed(FullSource, <<"api-development", "ai-app">>),
      Installed(Remove(FullSource, <<"plugins", "ai-app", "skill.md">>), <<"ai-app">>) }

InitVerify ==
    /\ spec_kit_root = FullSource
    /\ target \in VerifyTrees
    /\ edits = 0
    /\ InitInstaller
    /\ InitValidator
    /\ InitGitignoreVars
    /\ InitExamples({10})

NextVerify ==
    \/ RunAllChecks
    \/ CheckCoreFiles
    \/ CheckPlugins
    \/ CheckTemplates
    \/ CheckDocumentation
    \/ GetExitCode
    \/ \E e \in VerifierEdits : Edit(e)

\* one Validator instance on a tree the user edits
SpecVerify == InitVerify /\ [][NextVerify]_vars

NextReport ==
    \/ RunAllChecks
    \/ CheckCoreFiles
    \/ CheckPlugins
    \/ \E verbose \in BOOLEAN : PrintResults(verbose)
    \/ PrintJson
    \/ \E e \in VerifierEdits : Edit(e)

\* one Validator instance whose reports are printed, on a tree the user edits
SpecReport == InitVerify /\ [][NextReport]_vars

\* the pieces of text an initial .gitignore is made of
Chunks == { <<"x">>, <<NL>>, <<"#", " ">>, <<"/">>, SENTINEL,
            <<".", "s", "p", "e", "c", "-", "k", "i", "t", "-", "t", "e", "m", "p", "l", "a", "t", "e", "s">> }

RECURSIVE Texts(_)
\* the texts made of at most n chunks
Texts(n) ==
    IF n = 0 THEN { << >> }
    ELSE Texts(n - 1) \cup { t \o c : t \in Texts(n - 1), c \in Chunks }

GitignoreTrees == { EmptyDir } \cup { WriteFile(EmptyDir, GITIGNORE, t) : t \in Texts(MaxChunks) }

InitGitignore ==
    /\ spec_kit_root = FullSource
    /\ target \in GitignoreTrees
    /\ edits = 0
    /\ InitInstaller
    /\ InitValidator
    /\ InitGitignoreVars
    /\ InitExamples({10})

NextGitignore == UpdateGitignore

\* update_gitignore called again and again on one directory
SpecGitignore == InitGitignore /\ [][NextGitignore]_vars

NextConversation ==
    \/ \E content \in {"hello", " "} : AddUserMessage(content)
    \/ AddAssistantMessage

InitConversation ==
    /\ spec_kit_root = FullSource
    /\ target = EmptyDir
    /\ edits = 0
    /\ InitInstaller
    /\ InitValidator
    /\ InitGitignoreVars
    /\ InitExamples(1..MaxTurns)

\* one ConversationManager(max_turns = N), messages added in any order
SpecConversation == InitConversation /\ [][NextConversation]_vars

NextTodos ==
    \/ \E priority \in {"medium", "high"} : CreateTodo(priority)
    \/ \E completed \in {"none", "true", "false"}, priority \in {"none", "high", "urgent"},
          skip \in {-1, 0, 2}, limit \in {0, 1, 100, 101, 200} :
          ListTodos(completed, priority, skip, limit)

InitTodos ==
    /\ spec_kit_root = FullSource
    /\ target = EmptyDir
    /\ edits = 0
    /\ InitInstaller
    /\ InitValidator
    /\ InitGitignoreVars
    /\ messages = << >> /\ max_turns = 10 /\ removed = FALSE /\ adds = 0
    /\ todos \in [{"medium", "high"} -> {0, 60}]
    /\ posts = 0
    /\ todos_response = [status |-> 0, count |-> 0, skip |-> 0, limit |-> 0]

\* the todo API over a table that is empty or holds rows of earlier requests
SpecTodos == InitTodos /\ [][NextTodos]_vars

\* trees with a directory under .claude/skills that bears the name of a key of the
\* report, with and without its SKILL.md
InitNamesakes ==
    /\ spec_kit_root = FullSource
    /\ \E base \in { Installed(FullSource, <<"api-development">>), ensure_directory(PlainProject, SKILLS) },
          name \in {"core", "templates", "documentation", "plugins", "specs_warning"} :
          target \in { ensure_directory(base, SKILLS \o <<name>>),
                       WriteFile(base, SKILLS \o <<name, "SKILL.md">>, <<"n">>) }
    /\ edits = 0
    /\ InitInstaller
    /\ InitValidator
    /\ InitGitignoreVars
    /\ InitExamples({10})

\* one Validator instance on a tree with such a directory
SpecNamesakes == InitNamesakes /\ [][NextVerify]_vars

-----------------------------------------------------------------------------
(* Properties of the installer *)

\* both validations of run_installation pass on this source, target and force flag
PreflightPasses(sfs, fs, force) ==
    /\ IsFile(sfs, CORE_MARKER) \/ IsDir(sfs, CORE_MARKER)
    /\ IsDir(fs, << >>)
    /\ force \/ CLAUDE_MD \notin DOMAIN fs

\* the files of f1 and f2 with the same paths and the same text
SameFile(sfs, src, fs, dest) ==
    /\ IsFile(fs, dest)
    /\ fs[dest].content = sfs[src].content

\* C1: two consecutive run_installation calls with force=True, interactive=False
\* and the same plugin list leave, after the second, the very tree the first left
\* (every path and every file's text, .gitignore included).
C1_SecondForcedRunLeavesSameTree ==
    ( /\ pc = "print_summary"
      /\ prev.on
      /\ prev.req.force /\ req.force
      /\ ~prev.req.interactive /\ ~req.interactive
      /\ prev.req.plugins = req.plugins )
    => target = prev.tree

C1_Witness ==
    /\ pc = "print_summary"
    /\ prev.on
    /\ prev.req.force /\ req.force
    /\ ~prev.req.interactive /\ ~req.interactive
    /\ prev.req.plugins = req.plugins
    /\ Len(selected_plugins) = 2
    /\ Contains(SENTINEL, existing_content(target))
    /\ before = prev.tree

AssetsExist(sfs, plugins) ==
    \A i \in 1..Len(plugins) :
        /\ <<"plugins", plugins[i]>> \in DOMAIN sfs
        /\ <<"plugins", plugins[i], "skill.md">> \in DOMAIN sfs

\* C4: after a non-interactive run_installation into an empty directory has
\* returned, with every selected plugin's source assets present, the verify run
\* on that tree ends with fail_count = 0 and exit code 0.
C4_VerifyAfterInstallPasses ==
    ( /\ pc = "verify_done"
      /\ outcome = "ok"
      /\ ~req.interactive
      /\ before = EmptyDir
      /\ AssetsExist(spec_kit_root, selected_plugins)
      /\ exit_code # -1 )
    => (fail_count = 0 /\ exit_code = 0)

C4_Witness ==
    /\ pc = "verify_done"
    /\ outcome = "ok"
    /\ ~req.interactive
    /\ before = EmptyDir
    /\ AssetsExist(spec_kit_root, selected_plugins)
    /\ exit_code = 0
    /\ fail_count = 0
    /\ pass_count > 0
    /\ "api-development" \in DOMAIN report

\* C5: when the source marker is missing, the target is missing or no directory,
\* or the target holds CLAUDE.md and force is False, run_installation raises and
\* never reaches a step that writes: the target tree stays as the call found it.
C5_NoWriteBeforeValidation ==
    (calls > 0 /\ ~PreflightPasses(spec_kit_root, before, req.force))
    => ( /\ pc \in {"idle", "verify_done"}
         /\ outcome \in { "FileNotFoundError", "NotADirectoryError", "FileExistsError" }
         /\ target = before )

C5_Witness ==
    /\ calls > 0
    /\ outcome = "FileExistsError"
    /\ ~req.force
    /\ IsFile(before, CLAUDE_MD)
    /\ target = before

\* C6: the already-installed error (FileExistsError) is raised exactly when the
\* target is a directory holding CLAUDE.md and force is False; with force=True a
\* missing target, a target that is no directory and a missing source marker
\* still raise their own errors.
C6_ForceBypassesOnlyTheConflict ==
    /\ \A force \in BOOLEAN :
          validate_target(target, force) = "FileExistsError"
            <=> (IsDir(target, << >>) /\ CLAUDE_MD \in DOMAIN target /\ ~force)
    /\ << >> \notin DOMAIN target => validate_target(target, TRUE) = "FileNotFoundError"
    /\ IsFile(target, << >>) => validate_target(target, TRUE) = "NotADirectoryError"
    /\ CORE_MARKER \notin DOMAIN spec_kit_root => validate_environment(spec_kit_root) = "FileNotFoundError"
    /\ (calls > 0 /\ req.force /\ ~IsDir(before, << >>))
          => (pc \in {"idle", "verify_done"} /\ outcome \in { "FileNotFoundError", "NotADirectoryError" })
    /\ (calls > 0 /\ req.force /\ CORE_MARKER \notin DOMAIN spec_kit_root)
          => (pc \in {"idle", "verify_done"} /\ outcome = "FileNotFoundError")

C6_Witness ==
    /\ calls > 0
    /\ req.force
    /\ outcome = "NotADirectoryError"
    /\ IsFile(target, << >>)

\* the plugins install_plugins does not skip
InstalledPlugins(sfs, plugins) ==
    { plugins[i] : i \in { i \in 1..Len(plugins) :
                             /\ <<"plugins", plugins[i]>> \in DOMAIN sfs
                             /\ <<"plugins", plugins[i], "skill.md">> \in DOMAIN sfs } }

\* C7: after every run_installation that returned normally, CLAUDE.md has the
\* text of the source's core/CLAUDE.md whatever it held before, and for every
\* plugin installed SKILL.md has the text of its skill.md and both references/
\* and .spec-kit-templates/<plugin>/ hold every file of its templates at the
\* same relative path with the same text.
C7_InstalledFilesMatchSource ==
    (pc = "idle" /\ outcome = "ok")
    => /\ SameFile(spec_kit_root, CORE_MARKER, target, CLAUDE_MD)
       /\ \A p \in InstalledPlugins(spec_kit_root, selected_plugins) :
            /\ SameFile(spec_kit_root, <<"plugins", p, "skill.md">>,
                        target, <<".claude", "skills", p, "SKILL.md">>)
            /\ \A f \in { f \in DOMAIN spec_kit_root :
                            IsUnder(f, <<"plugins", p, "templates">>) /\ IsFile(spec_kit_root, f) } :
                 /\ SameFile(spec_kit_root, f, target,
                             <<".claude", "skills", p, "references">> \o SubSeq(f, 4, Len(f)))
                 /\ SameFile(spec_kit_root, f, target,
                             <<".spec-kit-templates", p>> \o SubSeq(f, 4, Len(f)))

C7_Witness ==
    /\ pc = "idle"
    /\ outcome = "ok"
    /\ before = ExistingProject
    /\ before[CLAUDE_MD].content = <<"e">>
    /\ selected_plugins = <<"api-development", "ai-app">>
    /\ target[CLAUDE_MD].content = <<"C">>
    /\ target[<<".claude", "skills", "api-development", "SKILL.md">>].content = <<"A">>
    /\ target[<<".claude", "skills", "api-development", "references", "sam", "template.yaml">>].content = <<"s">>
    /\ target[<<".spec-kit-templates", "ai-app", "anthropic-client.py">>].content = <<"a">>

\* C8: once a call has been interrupted in its write phase, a later call with
\* force=True and the same inputs does not raise, and when it has done its last
\* write the tree is the one the write phase leaves when nothing interrupts it.
C8_ForcedRerunRecovers ==
    /\ (pc = "print_summary" /\ SameInputs)
          => target = write_phase(spec_kit_root, broken.tree, selected_plugins,
                                  req.interactive, req.arch)
    /\ ( /\ pc = "idle"
         /\ broken.on
         /\ req.force
         /\ req.plugins = broken.req.plugins
         /\ req.interactive = broken.req.interactive )
          => outcome \notin Exceptions

C8_Witness ==
    /\ pc = "print_summary"
    /\ SameInputs
    /\ ~broken.req.force
    /\ broken.tree = PlainProject
    /\ target # before
    /\ IsFile(before, CLAUDE_MD)
    /\ Len(selected_plugins) = 2

-----------------------------------------------------------------------------
(* Properties of update_gitignore *)

\* C2: when the initial .gitignore is absent or does not contain the sentinel
\* ".spec-kit-templates/", then from the first update_gitignore call on the
\* sentinel occurs exactly once in the file, and every further call returns
\* False and leaves the file as it is.
C2_GitignoreUpdatedOnce ==
    /\ []( (~Contains(SENTINEL, existing_content(before)) /\ gi_calls >= 1)
             => CountOf(SENTINEL, existing_content(target)) = 1 )
    /\ [][ (~Contains(SENTINEL, existing_content(before)) /\ gi_calls >= 1)
             => (gi_modified' = FALSE /\ target' = target) ]_vars

C2_Witness ==
    /\ gi_calls = 3
    /\ GITIGNORE \in DOMAIN before
    /\ ~Contains(SENTINEL, existing_content(before))
    /\ Contains(<<"t", "e", "s", NL>>, existing_content(target))
    /\ CountOf(SENTINEL, existing_content(target)) = 1
    /\ gi_modified = FALSE

-----------------------------------------------------------------------------
(* Properties of the Validator *)

\* C9: get_exit_code returns 0 exactly when fail_count is 0 and 1 otherwise, and
\* the call changes neither the counters nor the stored results.
C9_ExitCodeFollowsFailCount ==
    [][ GetExitCode
        => ( /\ exit_code' = (IF fail_count = 0 THEN 0 ELSE 1)
             /\ pass_count' = pass_count
             /\ fail_count' = fail_count
             /\ results' = results
             /\ report' = report ) ]_vars

C9_Witness ==
    /\ exit_code = 1
    /\ fail_count > 0
    /\ pass_count > 0
    /\ results # << >>

\* C10: a run_all_checks on the tree the previous run_all_checks of the same
\* Validator saw ends with the same pass_count and fail_count, whatever check
\* methods were called on the Validator in between.
C10_CountersResetEachRun ==
    [][ (RunAllChecks /\ lastRun.on /\ lastRun.tree = target)
        => ( /\ pass_count' = lastRun.pass_count
             /\ fail_count' = lastRun.fail_count ) ]_vars

C10_Witness ==
    /\ checks = 3
    /\ lastRun.on
    /\ lastRun.tree = target
    /\ pass_count = lastRun.pass_count
    /\ fail_count = lastRun.fail_count
    /\ fail_count > 0
    /\ pass_count > 0
    /\ Len(results) = pass_count + fail_count

-----------------------------------------------------------------------------
(* Properties of the checks and the renderers *)

\* C11: no call of run_all_checks, of a check method, of print_results or of
\* print_json creates, deletes or modifies anything under the target root, and
\* print_results and print_json leave pass_count, fail_count, the stored results
\* and the report they are given as they were.
C11_ChecksAndRenderersChangeNothing ==
    [][ /\ (RunAllChecks \/ CheckCoreFiles \/ CheckPlugins \/ PrintJson
              \/ \E verbose \in BOOLEAN : PrintResults(verbose))
           => target' = target
        /\ (PrintJson \/ \E verbose \in BOOLEAN : PrintResults(verbose))
           => ( /\ pass_count' = pass_count
                /\ fail_count' = fail_count
                /\ results' = results
                /\ report' = report ) ]_vars

C11_Witness ==
    /\ output.kind = "text"
    /\ lastRun.on
    /\ lastRun.tree = target
    /\ report # EmptyDict
    /\ fail_count > 0
    /\ pass_count > 0
    /\ output.failed = fail_count
    /\ IsFile(target, CLAUDE_MD)

-----------------------------------------------------------------------------
(* Properties of the plugin selection *)

\* C12: whenever the write phase of run_installation is under way,
\* selected_plugins holds no plugin twice and every element of it is a key of
\* AVAILABLE_PLUGINS, however it was chosen (tokens, prompt or default).
C12_SelectionHasNoDuplicates ==
    pc \in WritePhase
    => /\ \A i \in 1..Len(selected_plugins) : selected_plugins[i] \in PluginNames
       /\ \A i \in 1..Len(selected_plugins), j \in 1..Len(selected_plugins) :
             selected_plugins[i] = selected_plugins[j] => i = j

\* C13: for every registry entry, a call given the one-token list [alias] and a
\* call given [canonical name] select the same list, the one holding the
\* canonical name; and selected_plugins never contains an alias.
C13_AliasResolvesToCanonicalName ==
    /\ ( /\ calls > 0
         /\ outcome \in {"running", "ok", "cancelled"}
         /\ Len(req.plugins) = 1 )
       => \A i \in 1..Len(AVAILABLE_PLUGINS) :
             (req.plugins[1] = AVAILABLE_PLUGINS[i].name
                \/ req.plugins[1] \in AVAILABLE_PLUGINS[i].aliases)
             => selected_plugins = << AVAILABLE_PLUGINS[i].name >>
    /\ \A n \in 1..Len(selected_plugins), i \in 1..Len(AVAILABLE_PLUGINS) :
          selected_plugins[n] \notin AVAILABLE_PLUGINS[i].aliases

C13_Witness ==
    /\ pc = "idle"
    /\ outcome = "ok"
    /\ req.plugins = <<"ai">>
    /\ selected_plugins = <<"ai-app">>
    /\ IsFile(target, <<".claude", "skills", "ai-app", "SKILL.md">>)
    /\ <<".claude", "skills", "ai">> \notin DOMAIN target

\* C14: when a keyboard interrupt arrives at the plugin-selection prompt or at
\* the confirmation prompt, the init command ends with exit code 130.
C14_PromptInterruptExits130 ==
    ( /\ pc = "idle"
      /\ \/ outcome = "SystemExit"
         \/ outcome = "cancelled" /\ req.confirm = "^C" )
    => init_exit_code(outcome) = 130

\* C15: while run_installation waits at the selection or the confirmation
\* prompt nothing has been written, and when the selection prompt is
\* interrupted, or the confirmation is interrupted or answered with anything but
\* y/yes, the call ends with the target tree exactly as it found it.
C15_CancelledRunWritesNothing ==
    /\ pc \in {"select", "confirm"} => target = before
    /\ outcome = "SystemExit" => (target = before /\ pc \in {"idle", "verify_done"})
    /\ req.confirm \notin {"unasked", "y", "yes"}
          => (target = before /\ pc \in {"idle", "verify_done"} /\ outcome = "cancelled")

C15_Witness ==
    /\ pc = "idle"
    /\ outcome = "cancelled"
    /\ req.confirm = "^C"
    /\ req.force
    /\ before = ExistingProject
    /\ target = before
    /\ selected_plugins = <<"ai-app", "api-development">>

-----------------------------------------------------------------------------
(* Properties of the single checks *)

\* the markdown files directly inside specs/features
MarkdownSpecs(fs) ==
    { p \in DOMAIN fs : /\ Len(p) = 3
                        /\ SubSeq(p, 1, 2) = FEATURES
                        /\ p[3] \in MdNames }

\* C16 as stated: the report of run_all_checks has a specs_warning entry exactly
\* when specs/features exists, holds 3 or more markdown files and
\* specs/SPECIFICATIONS_SUMMARY.md does not exist.
C16_WarningForThreeMarkdownFiles ==
    lastRun.on
    => ( "specs_warning" \in DOMAIN report
         <=> ( /\ FEATURES \in DOMAIN lastRun.tree
               /\ Cardinality(MarkdownSpecs(lastRun.tree)) >= 3
               /\ SUMMARY \notin DOMAIN lastRun.tree ) )

\* C16, amended: the report of run_all_checks has a specs_warning entry - one
\* failing result - exactly when specs/features exists, holds 3 or more markdown
\* files whose names do not start with a dot, and
\* specs/SPECIFICATIONS_SUMMARY.md does not exist; so a run after the summary
\* file was created reports no specs_warning.
C16_WarningForThreeVisibleSpecs ==
    lastRun.on
    => /\ "specs_warning" \in DOMAIN report
          <=> ( /\ FEATURES \in DOMAIN lastRun.tree
                /\ Cardinality({ p \in MarkdownSpecs(lastRun.tree) : ~IsHidden(p[3]) }) >= 3
                /\ SUMMARY \notin DOMAIN lastRun.tree )
       /\ "specs_warning" \in DOMAIN report
          => /\ ~report["specs_warning"].list
             /\ Len(report["specs_warning"].items) = 1
             /\ ~report["specs_warning"].items[1].passed

C16_Witness ==
    /\ lastRun.on
    /\ lastRun.tree = target
    /\ checks >= 2
    /\ edits = 1
    /\ Cardinality(MarkdownSpecs(target)) = 3
    /\ SUMMARY \in DOMAIN target
    /\ "specs_warning" \notin DOMAIN report

\* the entries directly inside .claude/skills
SkillsEntries(fs) == { p \in DOMAIN fs : Len(p) = 3 /\ SubSeq(p, 1, 2) = SKILLS }
SkillsSubdirs(fs) == { p \in SkillsEntries(fs) : fs[p].kind = "dir" }

\* C17: in the report of run_all_checks every immediate subdirectory d of
\* .claude/skills, whatever its name, has a bucket keyed by its name whose first
\* result passes iff d/SKILL.md exists, followed by one more, passing, result
\* iff d/references is a directory, and an entry that is not a directory has no
\* bucket; a call of check_plugins raises pass_count by the SKILL.md files and
\* references directories of the subdirectories and fail_count by the
\* subdirectories without SKILL.md, and by nothing else.
C17_OneBucketPerSkillsSubdirectory ==
    /\ [](lastRun.on
          => \A d \in SkillsEntries(lastRun.tree) :
                IF lastRun.tree[d].kind = "dir"
                THEN /\ d[3] \in DOMAIN report
                     /\ report[d[3]].list
                     /\ LET items == report[d[3]].items
                            refs == d \o <<"references">>
                            has_refs == refs \in DOMAIN lastRun.tree /\ lastRun.tree[refs].kind = "dir"
                        IN  /\ Len(items) = IF has_refs THEN 2 ELSE 1
                            /\ items[1].passed <=> (d \o <<"SKILL.md">>) \in DOMAIN lastRun.tree
                            /\ has_refs => items[2].passed
                ELSE d[3] \notin DOMAIN report)
    /\ [][CheckPlugins
          => LET dirs == SkillsSubdirs(target)
                 with_skill == { d \in dirs : (d \o <<"SKILL.md">>) \in DOMAIN target }
                 with_refs == { d \in dirs : /\ (d \o <<"references">>) \in DOMAIN target
                                             /\ target[d \o <<"references">>].kind = "dir" }
             IN  /\ pass_count' = pass_count + Cardinality(with_skill) + Cardinality(with_refs)
                 /\ fail_count' = fail_count + Cardinality(dirs \ with_skill)]_vars

C17_Witness ==
    /\ lastRun.on
    /\ lastRun.tree = target
    /\ CUSTOM \in SkillsSubdirs(target)
    /\ "custom" \in DOMAIN report
    /\ Len(report["custom"].items) = 2
    /\ ~report["custom"].items[1].passed
    /\ "api-development" \in DOMAIN report
    /\ report["api-development"].items[1].passed
    /\ checks = 2
    /\ pass_count > lastRun.pass_count

\* C18: the core bucket holds the extra failing "empty - no plugins installed"
\* result iff .claude/skills exists and has no entry; when .claude/skills does
\* not exist the bucket holds exactly the three existence results, and a call
\* of check_core_files raises fail_count only by the failing ones among them.
C18_EmptyWarningOnlyForExistingSkills ==
    /\ [](lastRun.on
          => LET core == report["core"].items
                 tree == lastRun.tree
             IN  /\ (\E i \in 1..Len(core) : core[i].message = <<".claude/skills/ (empty - no plugins installed)">>
                                             /\ ~core[i].passed)
                       <=> (SKILLS \in DOMAIN tree /\ SkillsEntries(tree) = {})
                 /\ SKILLS \notin DOMAIN tree => Len(core) = 3)
    /\ [][(CheckCoreFiles /\ SKILLS \notin DOMAIN target)
          => fail_count' = fail_count + 1
                           + (IF CLAUDE_MD \in DOMAIN target /\ target[CLAUDE_MD].kind = "file" THEN 0 ELSE 1)
                           + (IF SPECS \in DOMAIN target /\ target[SPECS].kind = "dir" THEN 0 ELSE 1)]_vars

-----------------------------------------------------------------------------
(* Properties of the write phase *)

\* the selected plugins whose source directory is absent
AbsentPlugins(sfs, plugins) ==
    { plugins[i] : i \in { i \in 1..Len(plugins) : <<"plugins", plugins[i]>> \notin DOMAIN sfs } }

\* C19: the pass of install_plugins over a plugin whose plugins/<name> is absent
\* changes nothing and goes on to the next plugin, or to the spec templates after
\* the last one; install_templates with no templates/specs source changes nothing
\* and goes on; and when run_installation has returned, every selected plugin
\* that has its assets is installed, nothing was made for an absent one, and
\* .gitignore holds the spec-kit entries.
C19_MissingSourcesAreSkipped ==
    /\ []((pc = "idle" /\ outcome = "ok")
          => /\ \A p \in InstalledPlugins(spec_kit_root, selected_plugins) :
                  SameFile(spec_kit_root, <<"plugins", p, "skill.md">>,
                           target, SKILLS \o <<p, "SKILL.md">>)
             /\ \A p \in AbsentPlugins(spec_kit_root, selected_plugins) :
                  (SKILLS \o <<p>>) \in DOMAIN target => (SKILLS \o <<p>>) \in DOMAIN before
             /\ GITIGNORE \in DOMAIN target
             /\ Contains(SENTINEL, target[GITIGNORE].content))
    /\ [][(InstallPlugin /\ <<"plugins", selected_plugins[k]>> \notin DOMAIN spec_kit_root)
          => /\ target' = target
             /\ k' = k + 1
             /\ pc' = IF k < Len(selected_plugins) THEN "install_plugins" ELSE "install_templates"]_vars
    /\ [][(InstallTemplates /\ TEMPLATES_SRC \notin DOMAIN spec_kit_root)
          => /\ target' = target
             /\ pc' = "offer_architecture_doc"]_vars

C19_Witness ==
    /\ pc = "idle"
    /\ outcome = "ok"
    /\ selected_plugins = <<"ai-app", "api-development">>
    /\ AbsentPlugins(spec_kit_root, selected_plugins) = {"ai-app"}
    /\ (SKILLS \o <<"ai-app">>) \notin DOMAIN target
    /\ SameFile(spec_kit_root, <<"plugins", "api-development", "skill.md">>,
                target, SKILLS \o <<"api-development", "SKILL.md">>)
    /\ (SPECS \o <<"feature.template.md">>) \in DOMAIN target
    /\ Contains(SENTINEL, target[GITIGNORE].content)

-----------------------------------------------------------------------------
(* Properties of the JSON report *)

-----------------------------------------------------------------------------
(* Properties of the ConversationManager *)

\* C21: after any sequence of add_user_message and add_assistant_message calls
\* on a ConversationManager with max_turns = N >= 1, get_turn_count() is at
\* most N.
C21_TurnCountWithinMaxTurns == get_turn_count(messages) <= max_turns

\* C22: was_trimmed() is True if and only if the most recent add_user_message
\* or add_assistant_message call removed messages from the history.
C22_WasTrimmedTellsLastRemoval ==
    adds > 0 => (was_trimmed(messages, max_turns) <=> removed)

-----------------------------------------------------------------------------
(* Properties of the todo API *)

\* C23: a list-todos request with limit greater than 100 is answered with
\* status 200 and at most 100 todos, while limit = 0 and a negative skip are
\* answered with 422.
C23_LimitAboveHundredIsCapped ==
    todos_response.status # 0
    => /\ (todos_response.limit > 100 /\ todos_response.skip >= 0)
             => (todos_response.status = 200 /\ todos_response.count <= 100)
       /\ (todos_response.limit = 0 \/ todos_response.skip < 0)
             => todos_response.status = 422

-----------------------------------------------------------------------------
(* Properties of the order of the write phase *)

\* C24: the write phase takes its steps in the fixed order marker copy, skeleton
\* directories, plugins, spec templates, architecture doc, .gitignore; hence on
\* a target that was empty when the call began, once .gitignore holds the
\* sentinel CLAUDE.md, .claude/skills, specs/features and specs/api exist, and
\* the SKILL.md of a plugin is there only if the SKILL.md of every plugin
\* before it in the selection, whose source has one, is there.
C24_WritePhaseKeepsItsOrder ==
    /\ []((before = EmptyDir /\ GITIGNORE \in DOMAIN target
              /\ Contains(SENTINEL, target[GITIGNORE].content))
          => /\ CLAUDE_MD \in DOMAIN target
             /\ SKILLS \in DOMAIN target
             /\ FEATURES \in DOMAIN target
             /\ (SPECS \o <<"api">>) \in DOMAIN target)
    /\ [](before = EmptyDir
          => \A j \in 1..Len(selected_plugins) : \A i \in 1..(j - 1) :
                ( /\ (SKILLS \o <<selected_plugins[j], "SKILL.md">>) \in DOMAIN target
                  /\ <<"plugins", selected_plugins[i], "skill.md">> \in DOMAIN spec_kit_root )
                => (SKILLS \o <<selected_plugins[i], "SKILL.md">>) \in DOMAIN target)
    /\ [][(pc' # pc /\ pc' \in WritePhase)
          => LET order == << "copy_marker", "make_skeleton", "install_plugins", "install_templates",
                             "offer_architecture_doc", "update_project_gitignore", "print_summary" >>
             IN  \/ pc \notin WritePhase /\ pc' = order[1]
                 \/ \E i \in 1..6 : pc = order[i] /\ pc' = order[i + 1]]_vars

C24_Witness ==
    /\ pc = "install_plugins"
    /\ k = 2
    /\ before = EmptyDir
    /\ selected_plugins = <<"ai-app", "api-development">>
    /\ (SKILLS \o <<"ai-app", "SKILL.md">>) \in DOMAIN target
    /\ (SKILLS \o <<"api-development">>) \notin DOMAIN target
    /\ CLAUDE_MD \in DOMAIN target
    /\ FEATURES \in DOMAIN target
    /\ GITIGNORE \notin DOMAIN target

-----------------------------------------------------------------------------
(* Properties of the .gitignore text *)

\* C25: after update_gitignore has returned, whatever it reported and whatever
\* the file held before, .gitignore has a line that is exactly
\* '.spec-kit-templates/'.
C25_SentinelIsALineOfItsOwn ==
    gi_calls >= 1
    => /\ GITIGNORE \in DOMAIN target
       /\ LET text == target[GITIGNORE].content
          IN  \E i \in 1..Len(text) :
                /\ OccursAt(SENTINEL, text, i)
                /\ i = 1 \/ text[i - 1] = NL
                /\ i + Len(SENTINEL) = Len(text) + 1 \/ text[i + Len(SENTINEL)] = NL

-----------------------------------------------------------------------------
(* Properties of the phases of run_all_checks *)

\* C26: every run_all_checks runs the core, plugins, templates, documentation
\* and specs-summary checks in that order, whatever the earlier ones recorded:
\* the results it stores are the three core existence results followed by the
\* two templates ones, its report has the 'core', 'templates' and
\* 'documentation' keys, the documentation bucket tells whether README.md
\* exists, and a specs_warning is there only without the summary file.
C26_EveryPhaseRuns ==
    [][RunAllChecks
       => /\ {"core", "templates", "documentation"} \subseteq DOMAIN report'
          /\ [i \in 1..Len(results') |-> results'[i].item]
                = << CLAUDE_MD, SKILLS, SPECS, FEATURES, SPECS \o <<"api">> >>
          /\ SubSeq(report'["templates"].items, 1, 2) = SubSeq(results', 4, 5)
          /\ report'["documentation"].items # << >> <=> README \in DOMAIN target
          /\ "specs_warning" \in DOMAIN report' => SUMMARY \notin DOMAIN target]_vars

C26_Witness ==
    /\ lastRun.on
    /\ lastRun.tree = target
    /\ lastRun.fail_count > 0
    /\ ~report["core"].items[3].passed
    /\ Len(report["templates"].items) = 2
    /\ Len(report["documentation"].items) = 1
    /\ report["documentation"].items[1].passed
    /\ "api-development" \in DOMAIN report

-----------------------------------------------------------------------------
(* Properties of the selection prompt *)

\* C27: a line read at the selection prompt either ends the prompt with a
\* non-empty selection or leaves selected_plugins as it was and prompts again:
\* 'all' selects every name of the registry in its order; a line of numbers
\* selects the plugin of each number in range, in the order typed, and skips the
\* others; a line with a word that is no number, or with no number in range,
\* selects nothing.
C27_PromptReturnsNonEmptySelection ==
    /\ [][pc = "select"
          => \/ pc' = "select" /\ selected_plugins' = selected_plugins
             \/ pc' = "confirm" /\ selected_plugins' # << >>
             \/ pc' = "idle" /\ outcome' = "SystemExit" /\ selected_plugins' = selected_plugins]_vars
    /\ [][\A line \in InputLines \cup { <<"1", "1">> } :
            SelectLine(line)
            => LET in_range == SelectSeq(line, LAMBDA w : w \in {"1", "2"})
                   picked == [i \in 1..Len(in_range) |->
                                 IF in_range[i] = "1" THEN "api-development" ELSE "ai-app"]
               IN  IF line = <<"all">>
                   THEN pc' = "confirm" /\ selected_plugins' = <<"api-development", "ai-app">>
                   ELSE IF (\A i \in 1..Len(line) : line[i] \in {"1", "2", "3"}) /\ picked # << >>
                   THEN pc' = "confirm" /\ selected_plugins' = picked
                   ELSE pc' = "select" /\ selected_plugins' = selected_plugins]_vars

C27_Witness ==
    /\ pc = "confirm"
    /\ req.interactive
    /\ req.plugins = << >>
    /\ selected_plugins = <<"ai-app", "api-development">>

-----------------------------------------------------------------------------
(* Properties of the installed plugin directories *)

\* C29: when run_installation has returned normally, every directory under
\* .claude/skills that the call made has its SKILL.md: nothing is made for a
\* selected plugin whose source directory or skill.md is missing.
C29_NoPluginDirectoryWithoutSkill ==
    (pc = "idle" /\ outcome = "ok")
    => /\ \A d \in SkillsSubdirs(target) :
            d \notin DOMAIN before => (d \o <<"SKILL.md">>) \in DOMAIN target
       /\ \A i \in 1..Len(selected_plugins) :
            <<"plugins", selected_plugins[i], "skill.md">> \notin DOMAIN spec_kit_root
            => ( (SKILLS \o <<selected_plugins[i]>>) \in DOMAIN target
                 => (SKILLS \o <<selected_plugins[i]>>) \in DOMAIN before )

-----------------------------------------------------------------------------
(* Properties of the report's buckets and the counters *)

\* C28: after run_all_checks pass_count is the number of passed results and
\* fail_count the number of failed results in the list buckets of the report
\* it returned; the specs_warning result is in neither.
C28_CountersMatchTheBuckets ==
    lastRun.on
    => LET lists == { c \in DOMAIN report : report[c].list }
           held(passed) == UNION { { <<c, i>> : i \in { i \in 1..Len(report[c].items) :
                                                         report[c].items[i].passed = passed } } :
                                   c \in lists }
       IN  /\ lastRun.pass_count = Cardinality(held(TRUE))
           /\ lastRun.fail_count = Cardinality(held(FALSE))

\* C30: in the report of run_all_checks 'core', 'templates' and 'documentation'
\* hold the results of their own phases and every directory under
\* .claude/skills has its own bucket, whatever the directories are named.
C30_NoBucketIsOverwritten ==
    lastRun.on
    => /\ Len(report["core"].items) >= 3
       /\ [i \in 1..3 |-> report["core"].items[i].item] = << CLAUDE_MD, SKILLS, SPECS >>
       /\ Len(report["templates"].items) >= 2
       /\ [i \in 1..2 |-> report["templates"].items[i].item] = << FEATURES, SPECS \o <<"api">> >>
       /\ \A i \in 1..Len(report["documentation"].items) :
             report["documentation"].items[i].item = README
       /\ \A d \in SkillsSubdirs(lastRun.tree) :
             /\ d[3] \in DOMAIN report
             /\ report[d[3]].list
             /\ Len(report[d[3]].items) >= 1
             /\ report[d[3]].items[1].item = d \o <<"SKILL.md">>

====
